---- MODULE Spec2Model ----
(***************************************************************************)
(* A model of jab's library core: the Project abstraction                  *)
(* (src/lib/project.rs), which keeps a database dump as one tracked file   *)
(* of a git repository and commits every update as a revision, and the     *)
(* JabConfig registry (src/lib/config.rs), a name -> ProjectConfig map     *)
(* persisted as pretty-printed JSON.                                       *)
(*                                                                         *)
(* crate::git (GitRepo, CommitIterator) is not among the sources read      *)
(* here; its operations are modelled from the RevisionStore capability     *)
(* the specification describes in sections 4.4 and 6.                      *)
(***************************************************************************)
EXTENDS Integers, Sequences, FiniteSets, TLC

\* ------------------------------------------------------------------ bounds

\* Revisions recorded over all repositories together.
MaxCommits == 2

\* Dump bytes range over 0..MaxByte.
MaxByte == 1

\* ------------------------------------------------------------ value spaces

Byte == 0..MaxByte

\* Dumps handed to commit_dump / sync_dump: the empty dump and one-byte dumps.
Dumps == {<<>>} \cup {<<b>> : b \in Byte}

Messages == {"init", "update"}

ProjectNames == {"shop", "blog"}

ProjectDirs == {<<"jab">>}

DbUris == {"postgres://localhost/shop"}

\* Files a repository directory may hold; the Project only ever names the first.
FileNames == {<<"dump.sql">>, <<"notes.txt">>}

\* A file of the working directory or of a revision's tree.
File(b) == [present |-> TRUE, bytes |-> b]

NoFile == [present |-> FALSE, bytes |-> <<>>]

NoFiles == [f \in FileNames |-> NoFile]

\* Results: Ok(v) carries a sequence, Err(e) names the kind of error.
Ok(v) == [ok |-> TRUE, val |-> v, err |-> ""]

Err(e) == [ok |-> FALSE, val |-> <<>>, err |-> e]

\* s is an initial part of t.
IsPrefix(s, t) == Len(s) <= Len(t) /\ SubSeq(t, 1, Len(s)) = s

\* ------------------------------------------------------------------- paths

\* Path::join for a relative component.
join(dir, rel) == dir \o rel

\* Project::default_sql_path
default_sql_path == <<"dump.sql">>

RepoPaths == {join(d, <<n>>) : d \in ProjectDirs, n \in ProjectNames}

\* ------------------------------------------------------------------- state

VARIABLES
  repos,        \* the disk: repository path -> [exists, files, commits]
  opened,       \* the Project values handed out by create / open
  recorded,     \* history variable: <<revision, repo_path, dump>> per successful commit_dump
  ret,          \* the last operation, its arguments, its result and its effects in order
  config,       \* the in-memory JabConfig
  config_file,  \* the persisted registry file at get_path()
  registered,   \* history variable: name -> the config last registered (or loaded) for it
  calls         \* the commit_dump calls in progress, one per process, and their steps so far

vars == <<repos, opened, recorded, ret, config, config_file, registered, calls>>

NoRepo == [exists |-> FALSE, files |-> NoFiles, commits |-> <<>>]

EmptyRepo == [exists |-> TRUE, files |-> NoFiles, commits |-> <<>>]

\* Revisions recorded on the whole disk (the model's stand-in for fresh hashes).
TotalCommits(disk) ==
  LET RECURSIVE Sum(_)
      Sum(S) == IF S = {} THEN 0
                ELSE LET p == CHOOSE x \in S : TRUE
                     IN Len(disk[p].commits) + Sum(S \ {p})
  IN Sum(RepoPaths)

\* Revision identifiers a caller may name: every one issued, and one never issued.
Hashes == 1..(MaxCommits + 1)

\* ------------------------------------------------- faults of the environment

\* What the environment does to one call: nothing, or one failing step.
\*   "repo"   opening (or initialising) the repository fails
\*   "create" fs::write fails before it truncates the file
\*   "write"  fs::write fails after writing the first `cut` bytes
\*   "commit" recording the revision fails
NoFault == [at |-> "none", cut |-> 0]

Fault(a) == [at |-> a, cut |-> 0]

WriteFaults(dump) ==
  {Fault("create")} \cup {[at |-> "write", cut |-> k] : k \in 0..(Len(dump) - 1)}

\* ------------------------------------------------------------ std::fs::write

\* fs::write(path, dump): create-or-truncate the file, then write all of dump.
\* Fails without touching anything when the parent directory is missing or the
\* file cannot be created; a failure part-way leaves the bytes written so far.
fs_write(disk, abspath, dump, fault) ==
  LET hits == {pf \in RepoPaths \X FileNames : join(pf[1], pf[2]) = abspath}
  IN IF hits = {} THEN [disk |-> disk, result |-> Err("IOError")]
     ELSE LET pf == CHOOSE x \in hits : TRUE
              p == pf[1]
              f == pf[2]
          IN IF ~disk[p].exists \/ fault.at = "create"
             THEN [disk |-> disk, result |-> Err("IOError")]
             ELSE IF fault.at = "write"
             THEN [disk |-> [disk EXCEPT ![p].files[f] = File(SubSeq(dump, 1, fault.cut))],
                   result |-> Err("IOError")]
             ELSE [disk |-> [disk EXCEPT ![p].files[f] = File(dump)],
                   result |-> Ok(<<>>)]

\* --------------------------------------------------- crate::git (RevisionStore)

\* GitRepo::upsert: open the repository at path, initialising it when absent.
GitRepo_upsert(disk, path, fault) ==
  IF fault.at = "repo" \/ path \notin RepoPaths
  THEN [disk |-> disk, result |-> Err("RevisionStoreError")]
  ELSE IF disk[path].exists
  THEN [disk |-> disk, result |-> Ok(<<>>)]
  ELSE [disk |-> [disk EXCEPT ![path] = EmptyRepo], result |-> Ok(<<>>)]

\* GitRepo::new: bind to the existing repository at path; fails when absent.
GitRepo_new(disk, path, fault) ==
  IF fault.at = "repo" \/ path \notin RepoPaths THEN Err("RevisionStoreError")
  ELSE IF ~disk[path].exists THEN Err("RevisionStoreError")
  ELSE Ok(<<>>)

\* The tree of the latest revision (empty before the first one).
HeadTree(repo) ==
  IF repo.commits = <<>> THEN NoFiles ELSE repo.commits[Len(repo.commits)].tree

\* GitRepo::commit_file: record a new revision over exactly `file`, as it is in
\* the working directory now, on top of the latest revision.
commit_file(disk, path, file, message, fault) ==
  IF fault.at = "commit" \/ ~disk[path].exists \/ file \notin FileNames
  THEN [disk |-> disk, result |-> Err("RevisionStoreError")]
  ELSE IF ~disk[path].files[file].present
  THEN [disk |-> disk, result |-> Err("RevisionStoreError")]
  ELSE LET repo == disk[path]
           rev == [id |-> TotalCommits(disk) + 1,
                   message |-> message,
                   tree |-> [HeadTree(repo) EXCEPT ![file] = repo.files[file]]]
       IN [disk |-> [disk EXCEPT ![path].commits = Append(repo.commits, rev)],
           result |-> Ok(<<>>)]

\* GitRepo::last_commit_hash: the identifier of the latest revision.
last_commit_hash(disk, path) ==
  LET c == disk[path].commits
  IN IF ~disk[path].exists \/ c = <<>> THEN Err("NoRevisions")
     ELSE Ok(c[Len(c)].id)

\* GitRepo::get_file_content_at_commit: the bytes of `file` in revision `hash`.
get_file_content_at_commit(disk, path, file, hash) ==
  LET c == disk[path].commits
      at == {i \in 1..Len(c) : c[i].id = hash}
  IN IF ~disk[path].exists \/ at = {} THEN Err("RevisionNotFound")
     ELSE LET rev == c[CHOOSE i \in at : TRUE]
          IN IF file \notin FileNames THEN Err("PathNotTracked")
             ELSE IF ~rev.tree[file].present THEN Err("PathNotTracked")
             ELSE Ok(rev.tree[file].bytes)

\* GitRepo::commit_iterator: the revisions of the history now, newest first.
GitRepo_commit_iterator(disk, path) ==
  LET c == disk[path].commits
  IN IF ~disk[path].exists THEN Err("RevisionStoreError")
     ELSE Ok([i \in 1..Len(c) |->
               [id |-> c[Len(c) + 1 - i].id, message |-> c[Len(c) + 1 - i].message]])

\* ------------------------------------------------------------------ Project

\* struct Project; the `repo` field is the binding to the repository at repo_path.
MkProject(name, project_dir, repo_path, sql_path, db_uri) ==
  [name |-> name, project_dir |-> project_dir, repo_path |-> repo_path,
   sql_path |-> sql_path, db_uri |-> db_uri]

\* OpenInput / CreateInput
Inputs == [project_dir : ProjectDirs, project_name : ProjectNames, db_uri : DbUris]

\* Project::open as it would be binding to repo_path without looking for a
\* repository there.
open_unvalidated(disk, input, fault) ==
  LET repo_path == join(input.project_dir, <<input.project_name>>)
  IN IF fault.at = "repo" THEN Err("RevisionStoreError")
     ELSE Ok(<<MkProject(input.project_name, input.project_dir, repo_path,
                         default_sql_path, input.db_uri)>>)

\* Project::open
open(disk, input, fault) ==
  LET repo_path == join(input.project_dir, <<input.project_name>>)
      repo == GitRepo_new(disk, repo_path, fault)
  IN IF ~repo.ok THEN repo
     ELSE Ok(<<MkProject(input.project_name, input.project_dir, repo_path,
                         default_sql_path, input.db_uri)>>)

\* Project::create as it would be with the repository initialised afresh on
\* every call, instead of opened when it is already there.
create_reinit(disk, input, fault, fault2) ==
  LET repo_path == join(input.project_dir, <<input.project_name>>)
  IN IF fault.at = "repo" THEN [disk |-> disk, result |-> Err("RevisionStoreError")]
     ELSE LET fresh == [disk EXCEPT ![repo_path] = EmptyRepo]
          IN [disk |-> fresh, result |-> open(fresh, input, fault2)]

\* Project::create as it would be with the repository initialised only, failing
\* when one is already there.
create_init_only(disk, input, fault, fault2) ==
  LET repo_path == join(input.project_dir, <<input.project_name>>)
  IN IF fault.at = "repo" \/ disk[repo_path].exists
     THEN [disk |-> disk, result |-> Err("RevisionStoreError")]
     ELSE LET fresh == [disk EXCEPT ![repo_path] = EmptyRepo]
          IN [disk |-> fresh, result |-> open(fresh, input, fault2)]

\* Project::create; `fault2` is what happens to the open that follows the upsert.
create(disk, input, fault, fault2) ==
  LET repo_path == join(input.project_dir, <<input.project_name>>)
      up == GitRepo_upsert(disk, repo_path, fault)
  IN IF ~up.result.ok THEN up
     ELSE [disk |-> up.disk, result |-> open(up.disk, input, fault2)]

\* Project::absolute_sql_path as it would be with the tracked file kept beside
\* the repositories, in project_dir.
absolute_sql_path_in_project_dir(prj) == join(prj.project_dir, prj.sql_path)

\* Project::absolute_sql_path
absolute_sql_path(prj) == join(prj.repo_path, prj.sql_path)

\* Project::sync_dump as it would be with the file opened for appending.
sync_dump_append(disk, prj, dump, fault) ==
  LET old == disk[prj.repo_path].files[prj.sql_path].bytes
  IN fs_write(disk, absolute_sql_path(prj),
              old \o dump, [fault EXCEPT !.cut = Len(old) + fault.cut])

\* Project::sync_dump as it would be leaving a tracked file that is already
\* there as it is.
sync_dump_keep_existing(disk, prj, dump, fault) ==
  IF disk[prj.repo_path].files[prj.sql_path].present
  THEN [disk |-> disk, result |-> Ok(<<>>)]
  ELSE fs_write(disk, absolute_sql_path(prj), dump, fault)

\* Project::sync_dump as it would be recording a revision after the write.
sync_dump_and_commit(disk, prj, dump, fault) ==
  LET w == fs_write(disk, absolute_sql_path(prj), dump, fault)
  IN IF ~w.result.ok THEN w
     ELSE commit_file(w.disk, prj.repo_path, prj.sql_path, "sync", fault)

\* Project::sync_dump
sync_dump(disk, prj, dump, fault) ==
  fs_write(disk, absolute_sql_path(prj), dump, fault)

\* One effect of a call, in the order the call made it.
Event(ev, ok, bytes) == [ev |-> ev, ok |-> ok, bytes |-> bytes]

\* Project::commit_dump as it would be without the call of sync_dump.
commit_dump_skip_sync(disk, prj, message, dump, fault) ==
  LET repo == GitRepo_new(disk, prj.repo_path, fault)
  IN IF ~repo.ok
     THEN [disk |-> disk, result |-> repo, trace |-> <<Event("open", FALSE, <<>>)>>]
     ELSE
       LET c == commit_file(disk, prj.repo_path, prj.sql_path, message, fault)
           tree == HeadTree(c.disk[prj.repo_path])
       IN [disk |-> c.disk, result |-> c.result,
           trace |-> <<Event("open", TRUE, <<>>),
                       Event("commit", c.result.ok,
                             IF c.result.ok THEN tree[prj.sql_path].bytes ELSE <<>>)>>]

\* Project::commit_dump as it would be with the revision recorded first and the
\* dump written after it.
commit_dump_commit_first(disk, prj, message, dump, fault) ==
  LET repo == GitRepo_new(disk, prj.repo_path, fault)
  IN IF ~repo.ok
     THEN [disk |-> disk, result |-> repo, trace |-> <<Event("open", FALSE, <<>>)>>]
     ELSE
       LET c == commit_file(disk, prj.repo_path, prj.sql_path, message, fault)
           tree == HeadTree(c.disk[prj.repo_path])
       IN IF ~c.result.ok
          THEN [disk |-> c.disk, result |-> c.result,
                trace |-> <<Event("open", TRUE, <<>>), Event("commit", FALSE, <<>>)>>]
          ELSE
            LET w == sync_dump(c.disk, prj, dump, fault)
                wfile == w.disk[prj.repo_path].files[prj.sql_path]
            IN [disk |-> w.disk, result |-> w.result,
                trace |-> <<Event("open", TRUE, <<>>),
                            Event("commit", TRUE, tree[prj.sql_path].bytes),
                            Event("write", w.result.ok, wfile.bytes)>>]

\* Project::commit_dump as it would be with the result of sync_dump dropped
\* instead of returned on error.
commit_dump_ignore_write_error(disk, prj, message, dump, fault) ==
  LET repo == GitRepo_new(disk, prj.repo_path, fault)
  IN IF ~repo.ok
     THEN [disk |-> disk, result |-> repo, trace |-> <<Event("open", FALSE, <<>>)>>]
     ELSE
       LET w == sync_dump(disk, prj, dump, fault)
           wfile == w.disk[prj.repo_path].files[prj.sql_path]
           c == commit_file(w.disk, prj.repo_path, prj.sql_path, message, fault)
           tree == HeadTree(c.disk[prj.repo_path])
       IN [disk |-> c.disk, result |-> c.result,
           trace |-> <<Event("open", TRUE, <<>>),
                       Event("write", w.result.ok, wfile.bytes),
                       Event("commit", c.result.ok,
                             IF c.result.ok THEN tree[prj.sql_path].bytes ELSE <<>>)>>]

\* Project::commit_dump as it would be with the dump written first and the
\* repository opened after it.
commit_dump_write_first(disk, prj, message, dump, fault) ==
  LET w == sync_dump(disk, prj, dump, fault)
      wfile == w.disk[prj.repo_path].files[prj.sql_path]
  IN IF ~w.result.ok
     THEN [disk |-> w.disk, result |-> w.result,
           trace |-> <<Event("write", FALSE, wfile.bytes)>>]
     ELSE
       LET repo == GitRepo_new(w.disk, prj.repo_path, fault)
       IN IF ~repo.ok
          THEN [disk |-> w.disk, result |-> repo,
                trace |-> <<Event("write", TRUE, wfile.bytes), Event("open", FALSE, <<>>)>>]
          ELSE
            LET c == commit_file(w.disk, prj.repo_path, prj.sql_path, message, fault)
                tree == HeadTree(c.disk[prj.repo_path])
            IN [disk |-> c.disk, result |-> c.result,
                trace |-> <<Event("write", TRUE, wfile.bytes),
                            Event("open", TRUE, <<>>),
                            Event("commit", c.result.ok,
                                  IF c.result.ok THEN tree[prj.sql_path].bytes ELSE <<>>)>>]

\* Project::commit_dump: open the repository, write the dump, record the revision.
commit_dump(disk, prj, message, dump, fault) ==
  LET repo == GitRepo_new(disk, prj.repo_path, fault)
  IN IF ~repo.ok
     THEN [disk |-> disk, result |-> repo, trace |-> <<Event("open", FALSE, <<>>)>>]
     ELSE
       LET w == sync_dump(disk, prj, dump, fault)
           wfile == w.disk[prj.repo_path].files[prj.sql_path]
       IN IF ~w.result.ok
          THEN [disk |-> w.disk, result |-> w.result,
                trace |-> <<Event("open", TRUE, <<>>),
                            Event("write", FALSE, wfile.bytes)>>]
          ELSE
            LET c == commit_file(w.disk, prj.repo_path, prj.sql_path, message, fault)
                tree == HeadTree(c.disk[prj.repo_path])
            IN [disk |-> c.disk, result |-> c.result,
                trace |-> <<Event("open", TRUE, <<>>),
                            Event("write", TRUE, wfile.bytes),
                            Event("commit", c.result.ok,
                                  IF c.result.ok THEN tree[prj.sql_path].bytes ELSE <<>>)>>]

\* Project::get_dump_at_commit as it would be reading the latest revision
\* whatever revision is asked for.
get_dump_at_commit_latest(disk, prj, commit_hash) ==
  LET last == last_commit_hash(disk, prj.repo_path)
  IN IF ~last.ok THEN Err(last.err)
     ELSE get_file_content_at_commit(disk, prj.repo_path, prj.sql_path, last.val)

\* Project::get_dump_at_commit as it would be with an error of the repository
\* turned into an empty dump.
get_dump_at_commit_or_empty(disk, prj, commit_hash) ==
  \* the fetch of the repository, its error dropped
  IF get_file_content_at_commit(disk, prj.repo_path, prj.sql_path, commit_hash).ok
  THEN get_file_content_at_commit(disk, prj.repo_path, prj.sql_path, commit_hash)
  ELSE Ok(<<>>)

\* Project::get_dump_at_commit
get_dump_at_commit(disk, prj, commit_hash) ==
  get_file_content_at_commit(disk, prj.repo_path, prj.sql_path, commit_hash)

\* Project::get_latest_dump as it would be with a missing latest revision turned
\* into an empty dump.
get_latest_dump_default(disk, prj) ==
  LET last == last_commit_hash(disk, prj.repo_path)
  IN IF ~last.ok THEN Ok(<<>>)
     ELSE get_dump_at_commit(disk, prj, last.val)

\* Project::get_latest_dump
get_latest_dump(disk, prj) ==
  LET last == last_commit_hash(disk, prj.repo_path)
  IN IF ~last.ok THEN Err(last.err)
     ELSE get_dump_at_commit(disk, prj, last.val)

\* Project::commit_iterator as it would be walking the history from its first
\* revision on.
commit_iterator_oldest_first(disk, prj) ==
  IF ~disk[prj.repo_path].exists THEN Err("RevisionStoreError")
  ELSE Ok([i \in 1..Len(disk[prj.repo_path].commits) |->
            [id |-> disk[prj.repo_path].commits[i].id,
             message |-> disk[prj.repo_path].commits[i].message]])

\* Project::commit_iterator
commit_iterator(disk, prj) == GitRepo_commit_iterator(disk, prj.repo_path)

\* ---------------------------------------------------------------- JabConfig

\* Strings of the registry are sequences of characters, so that the JSON text of
\* the registry file can be written and read back character by character.
Q == "\""

BS == "\\"

NL == "\n"

\* Project names and database URIs of the registry runs; they hold the characters
\* JSON has to escape.
CfgNames == {<<"a">>, <<"a", Q>>, <<BS>>}

CfgUris == {<<"p", NL>>, <<BS, "n">>}

\* Entries a registry holds at most.
MaxProjects == 2

\* struct ProjectConfig
ProjectConfig(name, db_uri) == [name |-> name, db_uri |-> db_uri]

ProjectConfigs == {ProjectConfig(n, u) : n \in CfgNames, u \in CfgUris}

\* struct JabConfig with no project
EmptyConfig == [projects |-> <<>>]

\* HashMap::insert
Insert(map, key, value) ==
  [k \in DOMAIN map \cup {key} |-> IF k = key THEN value ELSE map[k]]

\* ProjectConfigError::ProjectConfigDoesNotExist { name }
ProjectConfigDoesNotExist(name) ==
  [ok |-> FALSE, val |-> <<name>>, err |-> "ProjectConfigDoesNotExist"]

\* JabConfig::register_project_config as it would be with entry().or_insert():
\* the first config registered under a name stays.
register_project_config_keep_first(cfg, project_config) ==
  IF project_config.name \in DOMAIN cfg.projects THEN cfg
  ELSE [cfg EXCEPT !.projects = Insert(cfg.projects, project_config.name, project_config)]

\* JabConfig::register_project_config
register_project_config(cfg, project_config) ==
  [cfg EXCEPT !.projects = Insert(cfg.projects, project_config.name, project_config)]

\* JabConfig::project_config as it would be with a default config for a name
\* that is not registered.
project_config_or_default(cfg, name) ==
  IF name \in DOMAIN cfg.projects THEN Ok(<<cfg.projects[name]>>)
  ELSE Ok(<<ProjectConfig(<<>>, <<>>)>>)

\* JabConfig::project_config
project_config(cfg, name) ==
  IF name \in DOMAIN cfg.projects THEN Ok(<<cfg.projects[name]>>)
  ELSE ProjectConfigDoesNotExist(name)

\* ---- serde_json::to_string_pretty (PrettyFormatter, two spaces a level)

Indent(level) == [i \in 1..(2 * level) |-> " "]

RECURSIVE EscapeStr(_)
\* The characters of a JSON string: quote, backslash and newline are escaped.
EscapeStr(str) ==
  IF str = <<>> THEN <<>>
  ELSE LET c == Head(str)
           e == IF c = Q THEN <<BS, Q>>
                ELSE IF c = BS THEN <<BS, BS>>
                ELSE IF c = NL THEN <<BS, "n">>
                ELSE <<c>>
       IN e \o EscapeStr(Tail(str))

SerStr(str) == <<Q>> \o EscapeStr(str) \o <<Q>>

\* One "key": value member, with the key a field name or a map key.
SerMember(level, key, value) ==
  Indent(level) \o SerStr(key) \o <<":", " ">> \o value

\* A ProjectConfig whose members sit at `level`.
SerProjectConfig(level, pc) ==
  <<"{", NL>>
    \o SerMember(level, <<"n", "a", "m", "e">>, SerStr(pc.name)) \o <<",", NL>>
    \o SerMember(level, <<"d", "b", "_", "u", "r", "i">>, SerStr(pc.db_uri)) \o <<NL>>
    \o Indent(level - 1) \o <<"}">>

RECURSIVE SerEntries(_, _, _)
\* The entries of the map in the order the HashMap yields them.
SerEntries(level, map, order) ==
  IF order = <<>> THEN <<>>
  ELSE SerMember(level, Head(order), SerProjectConfig(level + 1, map[Head(order)]))
         \o (IF Tail(order) = <<>> THEN <<NL>> ELSE <<",", NL>>)
         \o SerEntries(level, map, Tail(order))

\* A HashMap<String, ProjectConfig> whose entries sit at `level`.
SerProjects(level, map, order) ==
  IF order = <<>> THEN <<"{", "}">>
  ELSE <<"{", NL>> \o SerEntries(level, map, order) \o Indent(level - 1) \o <<"}">>

\* serde_json::to_string_pretty(&JabConfig); `order` is the order in which the
\* HashMap iterates over its keys.
to_string_pretty(cfg, order) ==
  <<"{", NL>>
    \o SerMember(1, <<"p", "r", "o", "j", "e", "c", "t", "s">>,
                 SerProjects(2, cfg.projects, order))
    \o <<NL, "}">>

\* The orders a HashMap may iterate in: every arrangement of its keys.
Orders(map) ==
  {o \in [1..Cardinality(DOMAIN map) -> DOMAIN map] :
     \A i, j \in DOMAIN o : o[i] = o[j] => i = j}

\* JabConfig::empty_config_str
empty_config_str == to_string_pretty(EmptyConfig, <<>>)

\* ---- serde_json::from_str::<JabConfig>

\* The result of reading one piece of the text: the value, and where to go on.
Parsed(val, pos) == [ok |-> TRUE, val |-> val, pos |-> pos]

ParseFail == [ok |-> FALSE, val |-> <<>>, pos |-> 0]

\* The character at position i, "" past the end of the text.
At(text, i) == IF i \in 1..Len(text) THEN text[i] ELSE ""

RECURSIVE ParseStrBody(_, _, _)
\* The characters of a string up to its closing quote; a raw control character
\* or an escape other than \" \\ \n is an error.
ParseStrBody(text, i, acc) ==
  LET c == At(text, i)
  IN IF c = "" \/ c = NL THEN ParseFail
     ELSE IF c = Q THEN Parsed(acc, i + 1)
     ELSE IF c = BS
     THEN LET e == At(text, i + 1)
              d == IF e = Q THEN Q ELSE IF e = BS THEN BS ELSE IF e = "n" THEN NL ELSE ""
          IN IF d = "" THEN ParseFail ELSE ParseStrBody(text, i + 2, Append(acc, d))
     ELSE ParseStrBody(text, i + 1, Append(acc, c))

\* A JSON string starting at position i.
ParseStr(text, i) ==
  IF At(text, i) = Q THEN ParseStrBody(text, i + 1, <<>>) ELSE ParseFail

\* The first position from i on that holds no whitespace.
SkipWs(text, i) ==
  CHOOSE j \in i..(Len(text) + 1) :
    /\ At(text, j) \notin {" ", NL}
    /\ \A k \in i..(j - 1) : At(text, k) \in {" ", NL}

\* The colon after a key: the key, and the position of the value.
ParseColon(text, name, colon) ==
  IF At(text, colon) # ":" THEN ParseFail ELSE Parsed(name, SkipWs(text, colon + 1))

\* What follows a key that was read as the string `key`.
AfterKey(text, key) ==
  IF ~key.ok THEN ParseFail ELSE ParseColon(text, key.val, SkipWs(text, key.pos))

\* "key" and the colon after it: the key, and the position of the value.
ParseKey(text, i) == AfterKey(text, ParseStr(text, i))

RECURSIVE ParseMembers(_, _, _, _, _)

\* A JSON object from position i on; `kind` says which type is being read:
\* "JabConfig", "projects" (the HashMap) or "ProjectConfig".
ParseObject(kind, text, i, init) ==
  IF At(text, i) = "{" THEN ParseMembers(kind, text, i + 1, init, "first")
  ELSE ParseFail

\* Deserialize for ProjectConfig: both fields are required.
RequireFields(o) ==
  IF ~o.ok THEN ParseFail
  ELSE IF Len(o.val.name) = 0 \/ Len(o.val.db_uri) = 0 THEN ParseFail
  ELSE Parsed(ProjectConfig(o.val.name[1], o.val.db_uri[1]), o.pos)

ParseProjectConfig(text, i) ==
  RequireFields(ParseObject("ProjectConfig", text, i, [name |-> <<>>, db_uri |-> <<>>]))

\* The value read under `name` folded into what was read of the object so far.
\* A field of a struct may come once; an entry of the map replaces an earlier
\* one under the same key; a member the struct does not have is ignored.
Put(kind, acc, name, val) ==
  IF kind = "projects" THEN Parsed(Insert(acc, name, val), 0)
  ELSE IF kind = "ProjectConfig" /\ name = <<"n", "a", "m", "e">>
  THEN IF Len(acc.name) > 0 THEN ParseFail ELSE Parsed([acc EXCEPT !.name = <<val>>], 0)
  ELSE IF kind = "ProjectConfig" /\ name = <<"d", "b", "_", "u", "r", "i">>
  THEN IF Len(acc.db_uri) > 0 THEN ParseFail ELSE Parsed([acc EXCEPT !.db_uri = <<val>>], 0)
  ELSE IF kind = "JabConfig" /\ name = <<"p", "r", "o", "j", "e", "c", "t", "s">>
  THEN IF Len(acc) > 0 THEN ParseFail ELSE Parsed(<<val>>, 0)
  ELSE Parsed(acc, 0)

\* On with the members after one was folded in.
AfterPut(kind, text, pos, put) ==
  IF ~put.ok THEN ParseFail ELSE ParseMembers(kind, text, pos, put.val, "more")

\* On with the members after the value of one was read.
AfterValue(kind, text, acc, name, value) ==
  IF ~value.ok THEN ParseFail
  ELSE AfterPut(kind, text, value.pos, Put(kind, acc, name, value.val))

\* The value of the member whose key was read: a ProjectConfig in the map, the
\* map in the field projects, and a string in every other place.
AfterMemberKey(kind, text, acc, key) ==
  IF ~key.ok THEN ParseFail
  ELSE IF kind = "projects"
  THEN AfterValue(kind, text, acc, key.val, ParseProjectConfig(text, key.pos))
  ELSE IF kind = "JabConfig" /\ key.val = <<"p", "r", "o", "j", "e", "c", "t", "s">>
  THEN AfterValue(kind, text, acc, key.val, ParseObject("projects", text, key.pos, <<>>))
  ELSE AfterValue(kind, text, acc, key.val, ParseStr(text, key.pos))

\* The members of an object from position i, which holds no whitespace. `mode`
\* is "first" after the opening brace, "more" after a member and "key" after a
\* comma.
ParseMembersAt(kind, text, i, acc, mode) ==
  IF At(text, i) = "}" /\ mode # "key" THEN Parsed(acc, i + 1)
  ELSE IF At(text, i) = "," /\ mode = "more"
  THEN ParseMembers(kind, text, i + 1, acc, "key")
  ELSE IF mode = "more" THEN ParseFail
  ELSE AfterMemberKey(kind, text, acc, ParseKey(text, i))

ParseMembers(kind, text, i, acc, mode) ==
  ParseMembersAt(kind, text, SkipWs(text, i), acc, mode)

\* The registry read from the whole text: the field projects is required, and
\* nothing but whitespace may follow the object.
WholeText(text, o) ==
  IF ~o.ok THEN Err("ParseError")
  ELSE IF Len(o.val) = 0 THEN Err("ParseError")
  ELSE IF SkipWs(text, o.pos) # Len(text) + 1 THEN Err("ParseError")
  ELSE Ok(<<[projects |-> o.val[1]]>>)

\* serde_json::from_str::<JabConfig>
from_str(text) ==
  WholeText(text, ParseObject("JabConfig", text, SkipWs(text, 1), <<>>))

\* ---- the registry file

\* JabConfig::read: the registry parsed from the file at get_path().
read(file) ==
  IF ~file.present THEN Err("IOError") ELSE from_str(file.bytes)

\* fs::write of the registry file: all of text, or, failing, nothing (the file
\* could not be created) or the first fault.cut characters.
write_config(file, text, fault) ==
  IF fault.at = "create" THEN [file |-> file, result |-> Err("IOError")]
  ELSE IF fault.at = "write"
  THEN [file |-> File(SubSeq(text, 1, fault.cut)), result |-> Err("IOError")]
  ELSE [file |-> File(text), result |-> Ok(<<>>)]

\* JabConfig::persist as it would be serialising config.projects, not config.
persist_projects_only(file, cfg, order, fault) ==
  write_config(file, SerProjects(1, cfg.projects, order), fault)

\* JabConfig::persist
persist(file, cfg, order, fault) ==
  write_config(file, to_string_pretty(cfg, order), fault)

\* ------------------------------------------------- the Project state machine

NoProject == MkProject("", <<>>, <<>>, <<>>, "")

\* The record of the last call: what was called with what, and what came back.
Ret(op, prj, message, dump, hash, fault, result, trace) ==
  [op |-> op, prj |-> prj, message |-> message, dump |-> dump, hash |-> hash,
   fault |-> fault, result |-> result, trace |-> trace]

NoRet == Ret("none", NoProject, "", <<>>, 0, NoFault, Ok(<<>>), <<>>)

\* A process is one running program that holds a Project; two of them share the disk.
Procs == {"first", "second"}

\* Where a process stands in commit_dump: not in a call, or past the opening of
\* the repository, or past the write of the dump as well.
Idle == [pc |-> "idle", prj |-> NoProject, message |-> "", dump |-> <<>>]

NoCalls == [of |-> [proc \in Procs |-> Idle], trace |-> <<>>]


\* A new installation: the registry file seeded with empty_config_str and read.
InitConfig ==
  /\ config_file = File(empty_config_str)
  /\ config = EmptyConfig
  /\ registered = <<>>

InitProject ==
  /\ repos = [p \in RepoPaths |-> NoRepo]
  /\ opened = {}
  /\ recorded = <<>>
  /\ ret = NoRet
  /\ calls = NoCalls

Create(input, fault, fault2) ==
  \E r \in {create(repos, input, fault, fault2)} :
     /\ repos' = r.disk
     /\ opened' = IF r.result.ok THEN opened \cup {r.result.val[1]} ELSE opened
     /\ ret' = Ret("create", MkProject(input.project_name, input.project_dir, <<>>, <<>>,
                                       input.db_uri),
                   "", <<>>, 0, IF fault = NoFault THEN fault2 ELSE fault, r.result, <<>>)
     /\ UNCHANGED <<recorded, config, config_file, registered, calls>>

Open(input, fault) ==
  \E r \in {open(repos, input, fault)} :
     /\ opened' = IF r.ok THEN opened \cup {r.val[1]} ELSE opened
     /\ ret' = Ret("open", MkProject(input.project_name, input.project_dir, <<>>, <<>>,
                                     input.db_uri),
                   "", <<>>, 0, fault, r, <<>>)
     /\ UNCHANGED <<repos, recorded, config, config_file, registered, calls>>

CommitDump(prj, message, dump, fault) ==
  \E r \in {commit_dump(repos, prj, message, dump, fault)} :
     /\ repos' = r.disk
     /\ recorded' = IF r.result.ok
                    THEN Append(recorded,
                                [rev |-> last_commit_hash(r.disk, prj.repo_path).val,
                                 repo_path |-> prj.repo_path, dump |-> dump])
                    ELSE recorded
     /\ ret' = Ret("commit_dump", prj, message, dump, 0, fault, r.result, r.trace)
     /\ UNCHANGED <<opened, config, config_file, registered, calls>>

SyncDump(prj, dump, fault) ==
  \E r \in {sync_dump(repos, prj, dump, fault)} :
     /\ repos' = r.disk
     /\ ret' = Ret("sync_dump", prj, "", dump, 0, fault, r.result, <<>>)
     /\ UNCHANGED <<opened, recorded, config, config_file, registered, calls>>

GetDumpAtCommit(prj, commit_hash) ==
  /\ ret' = Ret("get_dump_at_commit", prj, "", <<>>, commit_hash, NoFault,
                get_dump_at_commit(repos, prj, commit_hash), <<>>)
  /\ UNCHANGED <<repos, opened, recorded, config, config_file, registered, calls>>

\* get_latest_dump as it would be checking the latest revision out into the
\* working directory to read it.
GetLatestDump_checkout(prj) ==
  \E r \in {get_latest_dump(repos, prj)} :
    /\ repos' = IF r.ok THEN sync_dump(repos, prj, r.val, NoFault).disk ELSE repos
    /\ ret' = Ret("get_latest_dump", prj, "", <<>>, 0, NoFault, r, <<>>)
    /\ UNCHANGED <<opened, recorded, config, config_file, registered, calls>>

GetLatestDump(prj) ==
  /\ ret' = Ret("get_latest_dump", prj, "", <<>>, 0, NoFault,
                get_latest_dump(repos, prj), <<>>)
  /\ UNCHANGED <<repos, opened, recorded, config, config_file, registered, calls>>

CommitIterator(prj) ==
  /\ ret' = Ret("commit_iterator", prj, "", <<>>, 0, NoFault,
                commit_iterator(repos, prj), <<>>)
  /\ UNCHANGED <<repos, opened, recorded, config, config_file, registered, calls>>

Init ==
  /\ InitProject
  /\ InitConfig

\* The inputs of the single-project runs: one name under one directory.
ShopInputs == {input \in Inputs : input.project_name = "shop"}

Next ==
  \/ \E input \in ShopInputs :
       \E ff \in {<<NoFault, NoFault>>, <<Fault("repo"), NoFault>>, <<NoFault, Fault("repo")>>} :
         Create(input, ff[1], ff[2])
  \/ \E input \in ShopInputs, fault \in {NoFault, Fault("repo")} : Open(input, fault)
  \/ \E prj \in opened, message \in Messages, dump \in Dumps :
       \E fault \in {NoFault, Fault("repo"), Fault("commit")} \cup WriteFaults(dump) :
         /\ TotalCommits(repos) < MaxCommits
         /\ CommitDump(prj, message, dump, fault)
  \/ \E prj \in opened, dump \in Dumps :
       \E fault \in {NoFault} \cup WriteFaults(dump) : SyncDump(prj, dump, fault)
  \/ \E prj \in opened, commit_hash \in Hashes : GetDumpAtCommit(prj, commit_hash)
  \/ \E prj \in opened : GetLatestDump(prj)
  \/ \E prj \in opened : CommitIterator(prj)

Spec == Init /\ [][Next]_vars

\* ------------------------------------------------ the registry state machine

\* The record of the last registry call.
CRet(op, arg, old, fault, result) ==
  [op |-> op, arg |-> arg, old |-> old, fault |-> fault, result |-> result]

NoCRet == CRet("none", <<>>, <<>>, NoFault, Ok(<<>>))

\* What HashMap::insert returns: the entry the key held, if any.
Previous(map, key) == IF key \in DOMAIN map THEN <<map[key]>> ELSE <<>>

\* register_project_config as it would be saving the registry on every call.
RegisterProjectConfig_autosave(pc) ==
  \E cfg \in {register_project_config(config, pc)} :
    \E order \in Orders(cfg.projects) :
      /\ config' = cfg
      /\ registered' = Insert(registered, pc.name, pc)
      /\ config_file' = persist(config_file, cfg, order, NoFault).file
      /\ ret' = CRet("register_project_config", pc, Previous(config.projects, pc.name),
                     NoFault, Ok(<<>>))
      /\ UNCHANGED <<repos, opened, recorded, calls>>

RegisterProjectConfig(pc) ==
  /\ config' = register_project_config(config, pc)
  /\ registered' = Insert(registered, pc.name, pc)
  /\ ret' = CRet("register_project_config", pc, Previous(config.projects, pc.name),
                 NoFault, Ok(<<>>))
  /\ UNCHANGED <<config_file, repos, opened, recorded, calls>>

ProjectConfigLookup(name) ==
  /\ ret' = CRet("project_config", name, <<>>, NoFault, project_config(config, name))
  /\ UNCHANGED <<config, config_file, registered, repos, opened, recorded, calls>>

Persist(order, fault) ==
  \E r \in {persist(config_file, config, order, fault)} :
     /\ config_file' = r.file
     /\ ret' = CRet("persist", <<>>, <<>>, fault, r.result)
     /\ UNCHANGED <<config, registered, repos, opened, recorded, calls>>

Read ==
  \E r \in {read(config_file)} :
     /\ config' = IF r.ok THEN r.val[1] ELSE config
     /\ registered' = IF r.ok THEN r.val[1].projects ELSE registered
     /\ ret' = CRet("read", <<>>, <<>>, NoFault, r)
     /\ UNCHANGED <<config_file, repos, opened, recorded, calls>>

\* Where a failing write of the registry file may stop: before the first
\* character, or inside the first key.
Cuts == {0, 12}

InitRegistry ==
  /\ InitConfig
  /\ repos = [p \in RepoPaths |-> NoRepo]
  /\ opened = {}
  /\ recorded = <<>>
  /\ ret = NoCRet
  /\ calls = NoCalls

NextRegistry ==
  \/ \E pc \in ProjectConfigs :
       /\ Cardinality(DOMAIN config.projects \cup {pc.name}) <= MaxProjects
       /\ RegisterProjectConfig(pc)
  \/ \E name \in CfgNames : ProjectConfigLookup(name)
  \/ \E order \in Orders(config.projects) :
       \E fault \in {NoFault, Fault("create")} \cup {[at |-> "write", cut |-> k] : k \in Cuts} :
         Persist(order, fault)
  \/ Read

SpecRegistry == InitRegistry /\ [][NextRegistry]_vars


\* ------------------------------------ the repository used by git as well

\* The files of a repository directory that no Project names.
OtherFiles == FileNames \ {default_sql_path}

\* What another tool puts in such a file.
ForeignBytes == <<0>>

\* A revision made in the repository at path by git itself, outside any Project:
\* another file of the directory is written and committed.
ForeignCommit(path, file, bytes) ==
  \E w \in {fs_write(repos, join(path, file), bytes, NoFault)} :
    \E c \in {commit_file(w.disk, path, file, "foreign", NoFault)} :
      /\ c.result.ok
      /\ repos' = c.disk
      /\ ret' = Ret("foreign", NoProject, "foreign", bytes, 0, NoFault, c.result, <<>>)
      /\ UNCHANGED <<opened, recorded, config, config_file, registered, calls>>

\* One project whose repository also gets revisions from git itself; no faults.
NextForeign ==
  \/ \E input \in ShopInputs : Create(input, NoFault, NoFault)
  \/ \E prj \in opened, message \in Messages, dump \in Dumps :
       /\ TotalCommits(repos) < MaxCommits
       /\ CommitDump(prj, message, dump, NoFault)
  \/ \E prj \in opened, commit_hash \in Hashes : GetDumpAtCommit(prj, commit_hash)
  \/ \E path \in RepoPaths, file \in OtherFiles :
       /\ repos[path].exists
       /\ TotalCommits(repos) < MaxCommits
       /\ ForeignCommit(path, file, ForeignBytes)

SpecForeign == Init /\ [][NextForeign]_vars

\* ------------------------------------------- two projects under one directory

\* Both projects of the directory, each with its own repository; no faults.
NextTwo ==
  \/ \E input \in Inputs : Create(input, NoFault, NoFault)
  \/ \E input \in Inputs : Open(input, NoFault)
  \/ \E prj \in opened, dump \in Dumps :
       /\ TotalCommits(repos) < MaxCommits
       /\ CommitDump(prj, "init", dump, NoFault)
  \/ \E prj \in opened, dump \in Dumps : SyncDump(prj, dump, NoFault)

SpecTwo == Init /\ [][NextTwo]_vars

\* --------------------------------- commit_dump run by two processes at once

\* One step a process has made on the shared disk: the bytes it wrote to the
\* tracked file, or the revision it recorded and the bytes that revision holds.
Step(proc, ev, bytes, rev) == [proc |-> proc, ev |-> ev, bytes |-> bytes, rev |-> rev]

\* Calls that have been entered and have not recorded their revision yet.
InFlight == {proc \in Procs : calls.of[proc].pc # "idle"}

\* commit_dump, first statement: GitRepo::new(self.repo_path())?
CallCommitDump(proc, prj, message, dump) ==
  /\ calls.of[proc].pc = "idle"
  /\ \E repo \in {GitRepo_new(repos, prj.repo_path, NoFault)} :
       calls' = [calls EXCEPT !.of[proc] =
                   IF repo.ok
                   THEN [pc |-> "opened", prj |-> prj, message |-> message, dump |-> dump]
                   ELSE Idle]
  /\ UNCHANGED <<repos, opened, recorded, ret, config, config_file, registered>>

\* commit_dump, second statement: self.sync_dump(dump)?
StepSyncDump(proc) ==
  /\ calls.of[proc].pc = "opened"
  /\ \E call \in {calls.of[proc]} :
       \E w \in {sync_dump(repos, call.prj, call.dump, NoFault)} :
         /\ repos' = w.disk
         /\ calls' = IF w.result.ok
                     THEN [of |-> [calls.of EXCEPT ![proc].pc = "written"],
                           trace |-> Append(calls.trace, Step(proc, "write", call.dump, 0))]
                     ELSE [calls EXCEPT !.of[proc] = Idle]
  /\ UNCHANGED <<opened, recorded, ret, config, config_file, registered>>

\* commit_dump, third statement: repo.commit_file(self.sql_path(), message)?
StepCommitFile(proc) ==
  /\ calls.of[proc].pc = "written"
  /\ \E call \in {calls.of[proc]} :
       \E c \in {commit_file(repos, call.prj.repo_path, call.prj.sql_path,
                             call.message, NoFault)} :
         \E rev \in {last_commit_hash(c.disk, call.prj.repo_path).val} :
           /\ repos' = c.disk
           /\ recorded' = IF c.result.ok
                          THEN Append(recorded, [rev |-> rev,
                                                 repo_path |-> call.prj.repo_path,
                                                 dump |-> call.dump])
                          ELSE recorded
           /\ calls' = IF c.result.ok
                       THEN [of |-> [calls.of EXCEPT ![proc] = Idle],
                             trace |-> Append(calls.trace,
                                              Step(proc, "commit",
                                                   get_dump_at_commit(c.disk, call.prj, rev).val,
                                                   rev))]
                       ELSE [calls EXCEPT !.of[proc] = Idle]
  /\ UNCHANGED <<opened, ret, config, config_file, registered>>

\* Two processes on one project, no locking: the statements of their commit_dump
\* calls interleave in any order.
NextConcurrent ==
  \/ \E input \in ShopInputs : Create(input, NoFault, NoFault)
  \/ \E proc \in Procs, prj \in opened, message \in Messages, dump \in Dumps :
       /\ TotalCommits(repos) + Cardinality(InFlight) < MaxCommits
       /\ CallCommitDump(proc, prj, message, dump)
  \/ \E proc \in Procs : StepSyncDump(proc)
  \/ \E proc \in Procs : StepCommitFile(proc)

SpecConcurrent == Init /\ [][NextConcurrent]_vars

\* ------------------------------------------------------------------ claims

\* The history and the tracked working file of a Project's repository.
CommitsOf(disk, prj) == disk[prj.repo_path].commits

TrackedFile(disk, prj) == disk[prj.repo_path].files[prj.sql_path]

\* C1: when commit_dump(msg, A) returns success, a get_latest_dump() called next
\* on the same project returns exactly A.
C1_CommitThenLatest ==
  (ret.op = "commit_dump" /\ ret.result.ok)
    => get_latest_dump(repos, ret.prj) = Ok(ret.dump)

\* A second commit_dump has just succeeded with a dump unlike the one before it.
C1_Witness ==
  /\ ret.op = "commit_dump"
  /\ ret.result.ok
  /\ ret.dump = <<1>>
  /\ Len(CommitsOf(repos, ret.prj)) = 2
  /\ CommitsOf(repos, ret.prj)[1].tree[ret.prj.sql_path] = File(<<0>>)

\* The entries of `recorded` that belong to the repository of prj.
RecordedOf(prj) == {k \in DOMAIN recorded : recorded[k].repo_path = prj.repo_path}

\* C2: get_dump_at_commit(r), for the revision r recorded by the i-th successful
\* commit_dump, returns the dump passed to that call whatever was committed
\* later, and get_latest_dump() returns the dump of the last such call.
C2_HistoryQueryable ==
  \A prj \in opened :
    /\ \A k \in RecordedOf(prj) :
         get_dump_at_commit(repos, prj, recorded[k].rev) = Ok(recorded[k].dump)
    /\ RecordedOf(prj) # {} =>
         LET last == CHOOSE k \in RecordedOf(prj) : \A j \in RecordedOf(prj) : j <= k
         IN get_latest_dump(repos, prj) = Ok(recorded[last].dump)

\* After commit_dump(m1, A) and commit_dump(m2, B), A # B, the first revision has
\* just been fetched and gave A.
C2_Witness ==
  /\ Len(recorded) = 2
  /\ recorded[1].dump # recorded[2].dump
  /\ ret.op = "get_dump_at_commit"
  /\ ret.hash = recorded[1].rev
  /\ ret.result = Ok(recorded[1].dump)
  /\ get_latest_dump(repos, ret.prj) = Ok(recorded[2].dump)

\* C3: no operation of Project removes an existing revision or changes what is
\* stored at one: every step keeps each repository and extends its history.
C3_AppendOnly ==
  [][\A p \in RepoPaths :
       repos[p].exists =>
         /\ repos'[p].exists
         /\ IsPrefix(repos[p].commits, repos'[p].commits)]_vars

\* A create has just returned on a repository that holds two revisions.
C3_Witness ==
  /\ ret.op = "create"
  /\ ret.result.ok
  /\ \E p \in RepoPaths : Len(repos[p].commits) = 2

\* C4: get_latest_dump() on a repository with zero revisions returns an error,
\* never a byte sequence.
C4_LatestOfEmptyFails ==
  /\ \A prj \in opened :
       CommitsOf(repos, prj) = <<>> => ~get_latest_dump(repos, prj).ok
  /\ (ret.op = "get_latest_dump" /\ CommitsOf(repos, ret.prj) = <<>>)
       => (~ret.result.ok /\ ret.result.err = "NoRevisions")

\* get_latest_dump has just failed on a repository with no revision whose
\* working file already holds a dump.
C4_Witness ==
  /\ ret.op = "get_latest_dump"
  /\ CommitsOf(repos, ret.prj) = <<>>
  /\ TrackedFile(repos, ret.prj) = File(<<1>>)
  /\ ~ret.result.ok

\* C5: when the write of the dump fails inside commit_dump, commit_dump returns
\* the error and the revision history is what it was before the call.
C5_WriteFailureNoRevision ==
  [][(ret'.op = "commit_dump" /\ ret'.fault.at \in {"create", "write"})
       => /\ ~ret'.result.ok
          /\ ret'.result.err = "IOError"
          /\ \A p \in RepoPaths : repos'[p].commits = repos[p].commits]_vars

\* A commit_dump whose write failed part-way has returned; the working file was
\* truncated and the one earlier revision is still the whole history.
C5_Witness ==
  /\ ret.op = "commit_dump"
  /\ ret.fault.at = "write"
  /\ ret.dump = <<1>>
  /\ ~ret.result.ok
  /\ TrackedFile(repos, ret.prj) = File(<<>>)
  /\ Len(CommitsOf(repos, ret.prj)) = 1

\* C6: within commit_dump the write of the dump completes before the revision is
\* recorded: the revision holds what a completed write put in the tracked file
\* earlier in the same call.
C6_WriteBeforeCommit ==
  ret.op = "commit_dump" =>
    \A j \in DOMAIN ret.trace :
      (ret.trace[j].ev = "commit" /\ ret.trace[j].ok) =>
        \E i \in 1..(j - 1) :
          /\ ret.trace[i].ev = "write"
          /\ ret.trace[i].ok
          /\ ret.trace[i].bytes = ret.dump
          /\ ret.trace[j].bytes = ret.trace[i].bytes

\* A commit_dump has recorded a second revision with new content.
C6_Witness ==
  /\ ret.op = "commit_dump"
  /\ ret.result.ok
  /\ Len(ret.trace) = 3
  /\ ret.trace[3].ev = "commit"
  /\ ret.trace[3].bytes = <<0>>
  /\ Len(CommitsOf(repos, ret.prj)) = 2
  /\ CommitsOf(repos, ret.prj)[1].tree[ret.prj.sql_path] = File(<<1>>)

\* C7: when recording the revision fails after the write succeeded, the working
\* file holds the new dump and the history is unchanged; a retry with the same
\* message and dump that succeeds leaves the disk as a success of the first call
\* would have: the latest dump is the dump and there is exactly one new revision.
C7_CommitFailureRetry ==
  [][(ret'.op = "commit_dump" /\ ret'.fault.at = "commit")
       => LET prj == ret'.prj
              retry == commit_dump(repos', prj, ret'.message, ret'.dump, NoFault)
              first == commit_dump(repos, prj, ret'.message, ret'.dump, NoFault)
          IN /\ ~ret'.result.ok
             /\ TrackedFile(repos', prj) = File(ret'.dump)
             /\ CommitsOf(repos', prj) = CommitsOf(repos, prj)
             /\ retry.result.ok
             /\ retry.disk = first.disk
             /\ get_latest_dump(retry.disk, prj) = Ok(ret'.dump)
             /\ Len(CommitsOf(retry.disk, prj)) = Len(CommitsOf(repos, prj)) + 1]_vars

\* Recording the revision has just failed: the working file holds the new dump,
\* the latest revision still holds the old one.
C7_Witness ==
  /\ ret.op = "commit_dump"
  /\ ret.fault.at = "commit"
  /\ ~ret.result.ok
  /\ ret.dump = <<1>>
  /\ TrackedFile(repos, ret.prj) = File(<<1>>)
  /\ get_latest_dump(repos, ret.prj) = Ok(<<0>>)

\* C8: register_project_config keeps at most one ProjectConfig per name: a name
\* already present gets the new config and the number of entries stays, a new
\* name adds exactly one entry, and every entry under another name stays as it is.
C8_RegisterOverwrites ==
  [][ret'.op = "register_project_config"
       => LET pc == ret'.arg
              old == config.projects
              new == config'.projects
          IN /\ DOMAIN new = DOMAIN old \cup {pc.name}
             /\ new[pc.name] = pc
             /\ \A n \in DOMAIN old \ {pc.name} : new[n] = old[n]
             /\ \A n \in DOMAIN new : new[n].name = n
             /\ Cardinality(DOMAIN new) =
                  IF pc.name \in DOMAIN old THEN Cardinality(DOMAIN old)
                  ELSE Cardinality(DOMAIN old) + 1]_vars

\* A name has just been registered again with another db_uri, beside an entry
\* under another name.
C8_Witness ==
  /\ ret.op = "register_project_config"
  /\ Len(ret.old) = 1
  /\ ret.old[1].db_uri # ret.arg.db_uri
  /\ Cardinality(DOMAIN config.projects) = 2
  /\ config.projects[ret.arg.name] = ret.arg

\* C9: project_config(name) returns ProjectConfigDoesNotExist carrying the name,
\* never a default config, when the name is not registered, and the config most
\* recently registered under the name when it is; the registry is unchanged.
C9_LookupOrError ==
  [][ret'.op = "project_config"
       => LET name == ret'.arg
          IN /\ config' = config
             /\ config_file' = config_file
             /\ ret'.result =
                  IF name \in DOMAIN registered THEN Ok(<<registered[name]>>)
                  ELSE ProjectConfigDoesNotExist(name)]_vars

\* A lookup of a name that is not registered has just failed on a registry that
\* holds a re-registered entry under another name.
C9_Witness ==
  /\ ret.op = "project_config"
  /\ ~ret.result.ok
  /\ ret.result.err = "ProjectConfigDoesNotExist"
  /\ ret.result.val = <<ret.arg>>
  /\ DOMAIN config.projects = {<<BS>>}
  /\ config.projects[<<BS>>].db_uri = <<BS, "n">>

\* C10: persist followed by read yields a registry with the same mapping from
\* name to {name, db_uri}.
C10_PersistReadRoundTrip ==
  (ret.op = "persist" /\ ret.result.ok) => read(config_file) = Ok(<<config>>)

\* A registry of two entries, whose strings hold a quote, a backslash and a
\* newline, has just been persisted.
C10_Witness ==
  /\ ret.op = "persist"
  /\ ret.result.ok
  /\ DOMAIN config.projects = {<<"a", Q>>, <<BS>>}
  /\ config.projects[<<"a", Q>>].db_uri = <<"p", NL>>
  /\ config.projects[<<BS>>].db_uri = <<BS, "n">>
  /\ read(config_file) = Ok(<<config>>)

\* The CreateInput of the create call that ret records.
InputOf(r) ==
  [project_dir |-> r.prj.project_dir, project_name |-> r.prj.name, db_uri |-> r.prj.db_uri]

\* C11: create is idempotent: a create that meets no fault succeeds and returns a
\* Project bound to project_dir/project_name; called on a repository that is
\* already there it leaves the revision history and the tracked file as they
\* were, and calling it again with the same arguments succeeds with the same
\* Project and the same disk.
C11_CreateIdempotent ==
  [][(ret'.op = "create" /\ ret'.fault = NoFault)
       => LET input == InputOf(ret')
              repo_path == join(input.project_dir, <<input.project_name>>)
              again == create(repos', input, NoFault, NoFault)
          IN /\ ret'.result.ok
             /\ ret'.result.val[1].repo_path = repo_path
             /\ repos'[repo_path].exists
             /\ (repos[repo_path].exists => repos' = repos)
             /\ again.result = ret'.result
             /\ again.disk = repos']_vars

\* A create has just succeeded for a Project handed out before, on a repository
\* that holds a revision and an uncommitted working file.
C11_Witness ==
  /\ ret.op = "create"
  /\ ret.fault = NoFault
  /\ ret.result.ok
  /\ ret.result.val[1] \in opened
  /\ Len(CommitsOf(repos, ret.result.val[1])) = 1
  /\ HeadTree(repos[ret.result.val[1].repo_path])[default_sql_path] = File(<<0>>)
  /\ TrackedFile(repos, ret.result.val[1]) = File(<<1>>)

RecordedSeq(prj) == SelectSeq(recorded, LAMBDA e : e.repo_path = prj.repo_path)

\* C13: commit_iterator yields the revisions of the history at the time of the
\* call, newest first, one entry per successful commit_dump call and no others.
C13_IteratorNewestFirst ==
  /\ \A prj \in opened :
       \E it \in {commit_iterator(repos, prj)} :
         /\ it.ok
         /\ Len(it.val) = Len(RecordedSeq(prj))
         /\ \A i \in 1..Len(it.val) :
              it.val[i].id = RecordedSeq(prj)[Len(it.val) + 1 - i].rev
  /\ ret.op = "commit_iterator" => ret.result = commit_iterator(repos, ret.prj)

\* After commit_dump("init", A) and commit_dump("update", B) on a fresh project,
\* and a later write that no revision records, commit_iterator has just yielded
\* exactly two entries: the second commit, then the first.
C13_Witness ==
  /\ ret.op = "commit_iterator"
  /\ ret.result.ok
  /\ Len(recorded) = 2
  /\ recorded[1].dump # recorded[2].dump
  /\ Len(ret.result.val) = 2
  /\ ret.result.val[1] = [id |-> recorded[2].rev, message |-> "update"]
  /\ ret.result.val[2] = [id |-> recorded[1].rev, message |-> "init"]
  /\ TrackedFile(repos, ret.prj).bytes # recorded[2].dump

\* The places in the history of prj's repository of the revision named hash.
RevisionsNamed(disk, prj, hash) ==
  {i \in DOMAIN CommitsOf(disk, prj) : CommitsOf(disk, prj)[i].id = hash}

\* C14: get_dump_at_commit(revision_id) returns an error, never a byte sequence,
\* when revision_id names no revision of the project's history and when the
\* tracked file is absent at the revision it names.
C14_GetDumpAtCommitErrors ==
  /\ \A prj \in opened, hash \in Hashes :
       \E r \in {get_dump_at_commit(repos, prj, hash)} :
         /\ RevisionsNamed(repos, prj, hash) = {} =>
              (~r.ok /\ r.err = "RevisionNotFound")
         /\ \A i \in RevisionsNamed(repos, prj, hash) :
              ~CommitsOf(repos, prj)[i].tree[prj.sql_path].present =>
                (~r.ok /\ r.err = "PathNotTracked")
  /\ ret.op = "get_dump_at_commit" =>
       ret.result = get_dump_at_commit(repos, ret.prj, ret.hash)

\* get_dump_at_commit has just failed for the first revision, made by git itself
\* before any dump was written, in a history whose second revision holds a dump;
\* a revision identifier never issued gives an error as well.
C14_Witness ==
  /\ ret.op = "get_dump_at_commit"
  /\ ~ret.result.ok
  /\ ret.result.err = "PathNotTracked"
  /\ Len(CommitsOf(repos, ret.prj)) = 2
  /\ ret.hash = CommitsOf(repos, ret.prj)[1].id
  /\ get_latest_dump(repos, ret.prj) = Ok(<<1>>)
  /\ get_dump_at_commit(repos, ret.prj, MaxCommits + 1) = Err("RevisionNotFound")

\* C15: every Project handed out has the tracked path "dump.sql" and a repo_path
\* of project_dir joined with name, and stays as it is; sync_dump and commit_dump
\* write the file repo_path/dump.sql and no other file of any repository, and
\* touch no other repository.
C15_ProjectPathsFixed ==
  [][/\ \A prj \in opened' :
          /\ prj.sql_path = <<"dump.sql">>
          /\ prj.repo_path = join(prj.project_dir, <<prj.name>>)
          /\ absolute_sql_path(prj) = prj.project_dir \o <<prj.name, "dump.sql">>
     /\ opened \subseteq opened'
     /\ ret'.op \in {"sync_dump", "commit_dump"} =>
          /\ \A p \in RepoPaths, f \in FileNames :
               join(p, f) # ret'.prj.project_dir \o <<ret'.prj.name, "dump.sql">>
                 => repos'[p].files[f] = repos[p].files[f]
          /\ \A p \in RepoPaths \ {join(ret'.prj.project_dir, <<ret'.prj.name>>)} :
               repos'[p] = repos[p]
          /\ ret'.result.ok =>
               repos'[join(ret'.prj.project_dir, <<ret'.prj.name>>)].files[<<"dump.sql">>]
                 = File(ret'.dump)]_vars

\* Both projects are open; commit_dump has just written and committed a dump for
\* one, and the repository of the other still holds its own dump and revision.
C15_Witness ==
  /\ ret.op = "commit_dump"
  /\ ret.result.ok
  /\ ret.prj.name = "shop"
  /\ ret.dump = <<1>>
  /\ Cardinality(opened) = 2
  /\ repos[<<"jab", "shop">>].files[<<"dump.sql">>] = File(<<1>>)
  /\ repos[<<"jab", "blog">>].files[<<"dump.sql">>] = File(<<0>>)
  /\ Len(repos[<<"jab", "blog">>].commits) = 1
  /\ Len(repos[<<"jab", "shop">>].commits) = 1

\* C16: register_project_config changes only the in-memory registry: the
\* registry file is the same after every register call, it changes only in a
\* persist, and after a persist that succeeds it holds the in-memory mapping of
\* the time of that call, which persist leaves as it is.
C16_RegisterDoesNotPersist ==
  [][/\ ret'.op = "register_project_config" => config_file' = config_file
     /\ config_file' # config_file => ret'.op = "persist"
     /\ (ret'.op = "persist" /\ ret'.result.ok) =>
          /\ config' = config
          /\ read(config_file') = Ok(<<config>>)]_vars

\* A second name has just been registered in memory while the registry file
\* still holds the single entry persisted before.
C16_Witness ==
  /\ ret.op = "register_project_config"
  /\ Cardinality(DOMAIN config.projects) = 2
  /\ read(config_file).ok
  /\ Cardinality(DOMAIN read(config_file).val[1].projects) = 1
  /\ \A n \in DOMAIN read(config_file).val[1].projects :
       n # ret.arg.name /\ read(config_file).val[1].projects[n] = config.projects[n]

\* The steps of the trace so far that wrote the tracked file.
WritesUpTo(j) == {i \in 1..j : calls.trace[i].ev = "write"}

\* The latest of them.
LastWriteUpTo(j) == CHOOSE i \in WritesUpTo(j) : \A k \in WritesUpTo(j) : k <= i

\* C17: with two processes in commit_dump on one project and no locking, the
\* tracked file holds the dump of whichever write happened last, and a revision
\* holds the dump of the last write before it was recorded, whoever made it.
C17_LastWriteWins ==
  /\ WritesUpTo(Len(calls.trace)) # {} =>
       \A prj \in opened :
         TrackedFile(repos, prj) =
           File(calls.trace[LastWriteUpTo(Len(calls.trace))].bytes)
  /\ \A j \in DOMAIN calls.trace :
       calls.trace[j].ev = "commit" =>
         /\ WritesUpTo(j) # {}
         /\ calls.trace[j].bytes = calls.trace[LastWriteUpTo(j)].bytes
         /\ \A prj \in opened :
              get_dump_at_commit(repos, prj, calls.trace[j].rev) = Ok(calls.trace[j].bytes)

\* The interleaving write(A), write(B), commit by the first, commit by the
\* second has run, A # B: the revision the first caller recorded holds B, not
\* the dump A it passed, and so does the tracked file.
C17_Witness ==
  /\ Len(calls.trace) = 4
  /\ calls.trace[1] = Step("first", "write", <<0>>, 0)
  /\ calls.trace[2] = Step("second", "write", <<1>>, 0)
  /\ calls.trace[3].proc = "first" /\ calls.trace[3].ev = "commit"
  /\ calls.trace[4].proc = "second" /\ calls.trace[4].ev = "commit"
  /\ recorded[1].rev = calls.trace[3].rev
  /\ recorded[1].dump = <<0>>
  /\ \A prj \in opened :
       /\ get_dump_at_commit(repos, prj, recorded[1].rev) = Ok(<<1>>)
       /\ TrackedFile(repos, prj) = File(<<1>>)
  /\ opened # {}

\* C18: sync_dump changes only the tracked working file: the revisions of every
\* repository and every other file are the same after it, and get_latest_dump()
\* gives after it what it gave before, the last committed dump or the error of
\* a history with no revision; a sync_dump that succeeds leaves the dump in the
\* tracked file.
C18_SyncDumpKeepsHistory ==
  [][ret'.op = "sync_dump"
       => /\ \A p \in RepoPaths :
               /\ repos'[p].commits = repos[p].commits
               /\ repos'[p].exists = repos[p].exists
               /\ \A f \in FileNames :
                    (p # ret'.prj.repo_path \/ f # ret'.prj.sql_path)
                      => repos'[p].files[f] = repos[p].files[f]
          /\ get_latest_dump(repos', ret'.prj) = get_latest_dump(repos, ret'.prj)
          /\ commit_iterator(repos', ret'.prj) = commit_iterator(repos, ret'.prj)
          /\ ret'.result.ok => TrackedFile(repos', ret'.prj) = File(ret'.dump)]_vars

\* sync_dump(B) has just succeeded after a commit of A, A # B: the tracked file
\* holds B and get_latest_dump() still returns A.
C18_Witness ==
  /\ ret.op = "sync_dump"
  /\ ret.result.ok
  /\ ret.dump = <<1>>
  /\ TrackedFile(repos, ret.prj) = File(<<1>>)
  /\ Len(CommitsOf(repos, ret.prj)) = 1
  /\ get_latest_dump(repos, ret.prj) = Ok(<<0>>)

\* C19: commit_dump opens the repository before it writes the dump: the opening
\* is the first step of every call, and when it fails commit_dump returns the
\* error with nothing written and nothing recorded, the disk as it was.
C19_OpenBeforeWrite ==
  [][ret'.op = "commit_dump"
       => /\ ret'.trace # <<>>
          /\ ret'.trace[1].ev = "open"
          /\ (ret'.fault.at = "repo" \/ ~ret'.trace[1].ok) =>
               /\ ~ret'.result.ok
               /\ ret'.result.err = "RevisionStoreError"
               /\ ret'.trace = <<Event("open", FALSE, <<>>)>>
               /\ repos' = repos
               /\ recorded' = recorded]_vars

\* A commit_dump of B has just failed to open the repository: the tracked file
\* and the latest revision both still hold A, A # B.
C19_Witness ==
  /\ ret.op = "commit_dump"
  /\ ret.fault.at = "repo"
  /\ ~ret.result.ok
  /\ ret.dump = <<1>>
  /\ TrackedFile(repos, ret.prj) = File(<<0>>)
  /\ get_latest_dump(repos, ret.prj) = Ok(<<0>>)
  /\ Len(CommitsOf(repos, ret.prj)) = 1

\* C20: get_dump_at_commit, get_latest_dump and commit_iterator are read-only:
\* whether they succeed or fail, every repository (working files and history)
\* and every Project handed out are the same after the call as before it.
C20_ReadsChangeNothing ==
  [][ret'.op \in {"get_dump_at_commit", "get_latest_dump", "commit_iterator"}
       => /\ repos' = repos
          /\ opened' = opened
          /\ recorded' = recorded]_vars

\* get_latest_dump has just returned the committed dump A while the tracked
\* working file holds a later, uncommitted B, and still holds it.
C20_Witness ==
  /\ ret.op = "get_latest_dump"
  /\ ret.result = Ok(<<0>>)
  /\ TrackedFile(repos, ret.prj) = File(<<1>>)
  /\ Len(CommitsOf(repos, ret.prj)) = 1

====
